---------------------------- MODULE Spec2Model ----------------------------
(***************************************************************************)
(* Structure-UTXO virtual machine: units, path enumeration, contracts,     *)
(* the gated VM (porc.py, bps.py) and the ledger VM (trans.py).            *)
(*                                                                         *)
(* Numbers.  delta, entropy and the thresholds are Python floats; they are *)
(* modelled in hundredths (0.2 is 20) and the means are compared exactly   *)
(* (sum / len < t  as  sum < t * len).  x is modelled in tenths (1 is 10,  *)
(* 1.1 is 11) and phi in hundredths.                                       *)
(*                                                                         *)
(* Objects.  Python units are objects shared by the store and by the paths *)
(* of a round.  heap is the sequence of all unit objects ever constructed; *)
(* dag is the dict's values (heap indices) in insertion order, keyed by    *)
(* the id of the object; a path is a sequence of heap indices.             *)
(***************************************************************************)
EXTENDS Integers, Sequences, FiniteSets, TLC

VARIABLES
    variant,              \* which source file's VM: "porc", "bps" or "trans"
    heap,                 \* every StructureUTXO object constructed so far
    dag,                  \* the unit store: heap indices in dict insertion order
    wallet_balances,      \* trans.py global
    total_supply,         \* trans.py global
    contracts,            \* StructureVM.contracts
    history,              \* StructureVM.history
    events,               \* StructureVM.events
    reward_pool,          \* StructureVM.reward_pool
    executed_contracts,   \* StructureVM.executed_contracts
    round,                \* porc.py StructureVM.round
    first_trigger_rounds, \* bps.py StructureVM.first_trigger_rounds
    block_times,          \* bps.py StructureVM.block_times
    pc,                   \* position of the caller: "idle", or "loop" inside run
    paths,                \* run's local: the paths enumerated for this round
    pi,                   \* run's outer loop index into paths
    ci,                   \* run's inner loop index into contracts
    round_number,         \* bps.py run's argument
    first_trigger_round,  \* bps.py run's local
    result,               \* run's local: the outcome of the last execute
    nruns,                \* number of run calls started (bounds the model)
    registered            \* history variable: the names passed to add_contract, in call order

vars == <<variant, heap, dag, wallet_balances, total_supply, contracts, history,
          events, reward_pool, executed_contracts, round, first_trigger_rounds,
          block_times, pc, paths, pi, ci, round_number, first_trigger_round,
          result, nruns, registered>>

(***************************************************************************)
(* Bounds of the model.                                                    *)
(***************************************************************************)
MaxUnits == 3
MaxLedgerUnits == 2
MaxPathUnits == 3
MaxOrderContracts == 3
MaxContracts == 3
MaxRounds == 2
MaxMatchUnits == 3
MaxMalformedUnits == 3

\* Python's None for an optional integer: the empty sequence; the integer n is <<n>>
None == <<>>

Some(n) == <<n>>

Range(s) == {s[i] : i \in DOMAIN s}

(***************************************************************************)
(* Unit identifiers: sha256(f"{x}{phi_val}")[:8].  The two numbers are     *)
(* formatted as Python formats them and concatenated; the hash is taken as *)
(* injective on the formatted text.                                        *)
(***************************************************************************)
FmtX(x) ==
    IF x % 10 = 0 THEN ToString(x \div 10)
    ELSE ToString(x \div 10) \o "." \o ToString(x % 10)

FmtPhi(p) ==
    IF p % 10 = 0 THEN "0." \o ToString(p \div 10)
    ELSE "0." \o ToString(p \div 10) \o ToString(p % 10)

UnitId(x, phi_val) == FmtX(x) \o FmtPhi(phi_val)

StructureUTXO(x, phi_val, delta, entropy, refs) ==
    [x |-> x, phi |-> phi_val, delta |-> delta, entropy |-> entropy,
     refs |-> refs, id |-> UnitId(x, phi_val), locked |-> FALSE]

UnitValue == 10

LedgerUTXO(x, phi_val, delta, entropy, refs, owner) ==
    [x |-> x, phi |-> phi_val, delta |-> delta, entropy |-> entropy,
     refs |-> refs, owner |-> owner, id |-> UnitId(x, phi_val),
     locked |-> FALSE, value |-> UnitValue, spent |-> FALSE,
     provenance |-> <<>>]

StructureContract(name, delta_thresh, entropy_thresh, action, priority, layer, depends_on, ttl) ==
    [name |-> name, delta_thresh |-> delta_thresh,
     entropy_thresh |-> entropy_thresh, action |-> action,
     priority |-> priority, layer |-> layer, depends_on |-> depends_on,
     ttl |-> ttl, activation_count |-> 0]

(***************************************************************************)
(* The unit store as a dict: insertion under an existing key replaces the  *)
(* value and keeps the key's position.                                     *)
(***************************************************************************)
DagPut(h, d, k) ==
    IF \E i \in DOMAIN d : h[d[i]].id = h[k].id
    THEN LET pos == CHOOSE i \in DOMAIN d : h[d[i]].id = h[k].id
         IN  [d EXCEPT ![pos] = k]
    ELSE Append(d, k)

\* [u.id for u in path]
RECURSIVE PathIds(_, _)
PathIds(h, path) ==
    IF path = <<>> THEN <<>>
    ELSE <<h[Head(path)].id>> \o PathIds(h, Tail(path))

(***************************************************************************)
(* find_paths: depth-first enumeration, every visited path emitted.        *)
(***************************************************************************)
\* mutant: every unit starts a path
IsRoot_any(utxo) == TRUE

IsRoot(utxo) == utxo.refs = <<>>

\* mutant: any unvisited unit extends a path
Extends_any(last, utxo) == TRUE

Extends(last, utxo) == last.id \in Range(utxo.refs)

RECURSIVE dfs(_, _, _, _)
RECURSIVE dfsLoop(_, _, _, _, _)

\* mutant: the branch's visited set takes the parent's id, not the child's
RECURSIVE dfsLoop_lagging(_, _, _, _, _)
dfsLoop_lagging(h, d, current_path, visited, k) ==
    IF k > Len(d) THEN <<>>
    ELSE LET utxo == h[d[k]]
             last == h[current_path[Len(current_path)]]
         IN  (IF utxo.id \in visited THEN <<>>
              ELSE IF Extends(last, utxo)
                   THEN dfs(h, d, Append(current_path, d[k]),
                            visited \cup {last.id})
                   ELSE <<>>)
             \o dfsLoop_lagging(h, d, current_path, visited, k + 1)

dfsLoop(h, d, current_path, visited, k) ==
    IF k > Len(d) THEN <<>>
    ELSE LET utxo == h[d[k]]
             last == h[current_path[Len(current_path)]]
         IN  (IF utxo.id \in visited THEN <<>>
              ELSE IF Extends(last, utxo)
                   THEN dfs(h, d, Append(current_path, d[k]),
                            visited \cup {utxo.id})
                   ELSE <<>>)
             \o dfsLoop(h, d, current_path, visited, k + 1)

dfs(h, d, current_path, visited) ==
    <<current_path>> \o dfsLoop(h, d, current_path, visited, 1)

\* mutant: the roots are taken from the last unit of the store to the first
RECURSIVE rootsLoop_reversed(_, _, _)
rootsLoop_reversed(h, d, k) ==
    IF k > Len(d) THEN <<>>
    ELSE (IF IsRoot(h[d[Len(d) + 1 - k]])
          THEN dfs(h, d, <<d[Len(d) + 1 - k]>>, {h[d[Len(d) + 1 - k]].id})
          ELSE <<>>)
         \o rootsLoop_reversed(h, d, k + 1)

RECURSIVE rootsLoop(_, _, _)

rootsLoop(h, d, k) ==
    IF k > Len(d) THEN <<>>
    ELSE (IF IsRoot(h[d[k]])
          THEN dfs(h, d, <<d[k]>>, {h[d[k]].id})
          ELSE <<>>)
         \o rootsLoop(h, d, k + 1)

find_paths(h, d) == rootsLoop(h, d, 1)

(***************************************************************************)
(* StructureContract.match / check.                                        *)
(***************************************************************************)
RECURSIVE SumDelta(_, _)
SumDelta(h, path) ==
    IF path = <<>> THEN 0 ELSE h[Head(path)].delta + SumDelta(h, Tail(path))

RECURSIVE SumEntropy(_, _)
SumEntropy(h, path) ==
    IF path = <<>> THEN 0 ELSE h[Head(path)].entropy + SumEntropy(h, Tail(path))

matchEndpoint(c, h, path) ==
    IF Len(path) < 2 THEN FALSE
    ELSE LET head == h[path[1]]
             tail == h[path[Len(path)]]
         IN  head.delta < c.delta_thresh /\ tail.entropy > c.entropy_thresh

\* mutant: the comparisons admit the threshold itself
matchAverage_nonStrict(c, h, path) ==
    IF Len(path) < 2 THEN FALSE
    ELSE /\ SumDelta(h, path) <= c.delta_thresh * Len(path)
         /\ SumEntropy(h, path) >= c.entropy_thresh * Len(path)

matchAverage(c, h, path) ==
    IF Len(path) < 2 THEN FALSE
    ELSE /\ SumDelta(h, path) < c.delta_thresh * Len(path)
         /\ SumEntropy(h, path) > c.entropy_thresh * Len(path)

match(vr, c, h, path) ==
    IF vr = "porc" THEN matchEndpoint(c, h, path) ELSE matchAverage(c, h, path)

check(vr, c, h, path) ==
    IF ~match(vr, c, h, path)
    THEN [passed |-> FALSE,
          reason |-> IF vr = "porc" THEN "path does not match pattern"
                     ELSE "path does not match avg condition"]
    ELSE [passed |-> TRUE, reason |-> "OK"]

(***************************************************************************)
(* Actions injected into contracts.  An outcome is the returned string,    *)
(* kept as its words; startswith looks at the first.                       *)
(***************************************************************************)
StartsWith(res, word) == Len(res) > 0 /\ res[1] = word

\* mutant: a Reward outcome is not recognised
IsReward_never(res) == FALSE

IsReward(res) == StartsWith(res, "Reward")

\* mutant: a Skipped outcome is taken for a generic success
IsSkipped_never(res) == FALSE

IsSkipped(res) == StartsWith(res, "Skipped")

RewardUnit == 10

reward_action(m, path) ==
    [m EXCEPT !.result = <<"Reward", "granted to", PathIds(m.heap, path)>>]

audit_action(m, path) ==
    [m EXCEPT !.result = <<"Audit", "log created for", PathIds(m.heap, path)>>]

Receiver == "b"

\* mutant: the spent flag is not consulted
AlreadySpent_ignored(sender_utxo) == FALSE

AlreadySpent(sender_utxo) == sender_utxo.spent

\* mutant: the sender is not debited
Debit_missing(wallet, sender, value) == wallet

Debit(wallet, sender, value) == [wallet EXCEPT ![sender] = @ - value]

Credit(wallet, receiver, value) == [wallet EXCEPT ![receiver] = @ + value]

MarkSpent(h, k) == [h EXCEPT ![k].spent = TRUE]

\* mutant: the successor starts a fresh provenance
MintSuccessor_noProvenance(sender_utxo, receiver) ==
    LedgerUTXO(sender_utxo.x + 1, sender_utxo.phi, sender_utxo.delta,
               sender_utxo.entropy, <<sender_utxo.id>>, receiver)

\* the successor unit: x + 0.1 is one tenth more
MintSuccessor(sender_utxo, receiver) ==
    [LedgerUTXO(sender_utxo.x + 1, sender_utxo.phi, sender_utxo.delta,
                sender_utxo.entropy, <<sender_utxo.id>>, receiver)
     EXCEPT !.provenance = Append(sender_utxo.provenance, sender_utxo.id)]

\* mutant: the balance is tested before the spent flag
transfer_action_balanceFirst(m, path) ==
    LET sender_utxo == m.heap[path[1]]
        sender == sender_utxo.owner
        value == sender_utxo.value
    IN  IF m.wallet[sender] < value
        THEN [m EXCEPT !.result =
                 <<"Transfer failed:", "insufficient balance", sender>>]
        ELSE IF AlreadySpent(sender_utxo)
        THEN [m EXCEPT !.result =
                 <<"Transfer failed:", "already spent", sender_utxo.id>>]
        ELSE LET w1 == Debit(m.wallet, sender, value)
                 w2 == Credit(w1, Receiver, value)
                 new_utxo == MintSuccessor(sender_utxo, Receiver)
                 h1 == MarkSpent(m.heap, path[1])
                 h2 == Append(h1, new_utxo)
             IN  [m EXCEPT !.wallet = w2,
                           !.heap = h2,
                           !.dag = DagPut(h2, m.dag, Len(h2)),
                           !.result = <<"Transferred", value, sender, Receiver,
                                        new_utxo.id>>]

transfer_action(m, path) ==
    LET sender_utxo == m.heap[path[1]]
        sender == sender_utxo.owner
        value == sender_utxo.value
    IN  IF AlreadySpent(sender_utxo)
        THEN [m EXCEPT !.result =
                 <<"Transfer failed:", "already spent", sender_utxo.id>>]
        ELSE IF m.wallet[sender] >= value
        THEN LET w1 == Debit(m.wallet, sender, value)
                 w2 == Credit(w1, Receiver, value)
                 new_utxo == MintSuccessor(sender_utxo, Receiver)
                 h1 == MarkSpent(m.heap, path[1])
                 h2 == Append(h1, new_utxo)
             IN  [m EXCEPT !.wallet = w2,
                           !.heap = h2,
                           !.dag = DagPut(h2, m.dag, Len(h2)),
                           !.result = <<"Transferred", value, sender, Receiver,
                                        new_utxo.id>>]
        ELSE [m EXCEPT !.result =
                 <<"Transfer failed:", "insufficient balance", sender>>]

CallAction(action, m, path) ==
    CASE action = "reward" -> reward_action(m, path)
      [] action = "audit" -> audit_action(m, path)
      [] action = "transfer" -> transfer_action(m, path)

(***************************************************************************)
(* StructureContract.execute on the memory m = [heap, dag, wallet,         *)
(* contract, result]: the objects the call can touch.                      *)
(***************************************************************************)
\* mutant: only the first unit of the path is locked
LockPath_headOnly(h, path) ==
    IF path = <<>> THEN h ELSE [h EXCEPT ![Head(path)].locked = TRUE]

\* for u in utxos: u.locked = True
RECURSIVE LockPath(_, _)
LockPath(h, path) ==
    IF path = <<>> THEN h
    ELSE LockPath([h EXCEPT ![Head(path)].locked = TRUE], Tail(path))

\* mutant: the path is locked before check is consulted
execute_lockAlways(vr, m, path) ==
    LET chk == check(vr, m.contract, m.heap, path)
    IN  IF chk.passed
        THEN CallAction(m.contract.action,
                        [m EXCEPT !.contract.activation_count = @ + 1,
                                  !.heap = LockPath(m.heap, path)],
                        path)
        ELSE [m EXCEPT !.result = <<"Skipped", chk.reason>>,
                       !.heap = LockPath(m.heap, path)]

execute(vr, m, path) ==
    LET chk == check(vr, m.contract, m.heap, path)
    IN  IF chk.passed
        THEN CallAction(m.contract.action,
                        [m EXCEPT !.contract.activation_count = @ + 1,
                                  !.heap = LockPath(m.heap, path)],
                        path)
        ELSE [m EXCEPT !.result = <<"Skipped", chk.reason>>]

Memory(c) ==
    [heap |-> heap, dag |-> dag, wallet |-> wallet_balances, contract |-> c,
     result |-> <<>>]

(***************************************************************************)
(* StructureVM.add_contract: append, then list.sort (stable) on            *)
(* (-layer, -priority).                                                    *)
(***************************************************************************)
SortKey(c) == <<0 - c.layer, 0 - c.priority>>

\* mutant: an unstable sort, equal keys swapped
KeyLess_orEqual(a, b) == \/ a[1] < b[1]
                         \/ a[1] = b[1] /\ a[2] <= b[2]

KeyLess(a, b) == \/ a[1] < b[1]
                 \/ a[1] = b[1] /\ a[2] < b[2]

RECURSIVE InsertSorted(_, _)
InsertSorted(s, c) ==
    IF s = <<>> THEN <<c>>
    ELSE IF KeyLess(SortKey(c), SortKey(s[Len(s)]))
         THEN Append(InsertSorted(SubSeq(s, 1, Len(s) - 1), c), s[Len(s)])
         ELSE Append(s, c)

RECURSIVE StableSort(_)
StableSort(s) ==
    IF s = <<>> THEN <<>>
    ELSE InsertSorted(StableSort(SubSeq(s, 1, Len(s) - 1)), s[Len(s)])

add_contract(cs, contract) == StableSort(Append(cs, contract))


(***************************************************************************)
(* Inputs: the unit stores and the contracts the callers set up.           *)
(***************************************************************************)
Metrics == {[delta |-> 20, entropy |-> 95], [delta |-> 40, entropy |-> 85]}

Owners == {"a", "b"}

UnitX(k) == 10 * k

UnitPhi(k) == 50 - k

\* each unit references its predecessor or nothing, as the mains build them
\* (porc.py 133-135, bps.py 167, trans.py 151)
Parents(n) == {p \in [1..n -> 0..n] : \A k \in 1..n : p[k] \in {0, k - 1}}

RefsTo(par, k) ==
    IF par[k] = 0 THEN <<>> ELSE <<UnitId(UnitX(par[k]), UnitPhi(par[k]))>>

VMStores ==
    {[k \in 1..n |-> StructureUTXO(UnitX(k), UnitPhi(k), met[k].delta,
                                   met[k].entropy, RefsTo(par, k))] :
        <<n, met, par>> \in
            UNION {{n} \X [1..n -> Metrics] \X Parents(n) : n \in 1..MaxUnits}}

\* the ledger's stores: unit 2 may sit at (x1 + 0.1, phi1), where the successor
\* of unit 1 would be minted
LedgerX(k, twin) == IF twin /\ k = 2 THEN UnitX(1) + 1 ELSE UnitX(k)

LedgerPhi(k, twin) == IF twin /\ k = 2 THEN UnitPhi(1) ELSE UnitPhi(k)

LedgerRefsTo(par, k, twin) ==
    IF par[k] = 0 THEN <<>>
    ELSE <<UnitId(LedgerX(par[k], twin), LedgerPhi(par[k], twin))>>

LedgerStores ==
    {[k \in 1..n |-> LedgerUTXO(LedgerX(k, twin), LedgerPhi(k, twin),
                                met[k].delta, met[k].entropy,
                                LedgerRefsTo(par, k, twin), own[k])] :
        <<n, met, par, own, twin>> \in
            UNION {{n} \X [1..n -> Metrics] \X Parents(n) \X [1..n -> Owners]
                       \X BOOLEAN : n \in 1..MaxLedgerUnits}}

VMContracts ==
    {StructureContract("ResonanceReward", 30, 90, "reward", 10, 1, "", -1),
     StructureContract("ComplianceAudit", 40, 60, "audit", 5, 0,
                       "ResonanceReward", 1),
     StructureContract("Orphan", 40, 60, "audit", 0, 0, "Ghost", 0)}

LedgerContracts ==
    {StructureContract("TokenTransfer", 35, 65, "transfer", 0, 0, "", -1),
     StructureContract("Limited", 35, 65, "transfer", 1, 0, "Ghost", 0)}

\* contracts that differ in layer and priority only, for add_contract alone
OrderContracts ==
    {StructureContract(name, 30, 90, "reward", priority, layer, "", -1) :
        <<name, priority, layer>> \in {"c1", "c2", "c3", "c4"} \X (0..2) \X (0..1)}

ContractPool(vr) ==
    CASE vr = "trans" -> LedgerContracts
      [] vr = "order" -> OrderContracts
      [] OTHER -> VMContracts

\* stores for find_paths alone: unit k references any set of earlier units, and
\* the dict holds the units in any insertion order
RECURSIVE SeqOfSet(_)
SeqOfSet(S) ==
    IF S = {} THEN <<>>
    ELSE LET least == CHOOSE a \in S : \A b \in S : a <= b
         IN  <<least>> \o SeqOfSet(S \ {least})

DagStores ==
    {[k \in 1..n |->
         StructureUTXO(UnitX(k), UnitPhi(k), 20, 95,
                       [i \in DOMAIN SeqOfSet(par[k]) |->
                           UnitId(UnitX(SeqOfSet(par[k])[i]),
                                  UnitPhi(SeqOfSet(par[k])[i]))])] :
        <<n, par>> \in
            UNION {{n} \X {q \in [1..n -> SUBSET (1..n)] :
                              \A k \in 1..n : q[k] \subseteq 1..(k - 1)} :
                      n \in 0..MaxPathUnits}}

InsertionOrders(n) ==
    {f \in [1..n -> 1..n] : \A i, j \in 1..n : f[i] = f[j] => i = j}

ContractLimit(vr) == IF vr = "order" THEN MaxOrderContracts ELSE MaxContracts

IdentityDag(h) == [i \in DOMAIN h |-> i]

(***************************************************************************)
(* Initial states.                                                         *)
(***************************************************************************)
InitVMFields ==
    /\ contracts = <<>>
    /\ history = <<>>
    /\ events = <<>>
    /\ reward_pool = 0
    /\ executed_contracts = {}
    /\ round = 0
    /\ first_trigger_rounds = <<>>
    /\ block_times = <<>>
    /\ pc = "idle"
    /\ paths = <<>>
    /\ pi = 0
    /\ ci = 0
    /\ first_trigger_round = None
    /\ result = <<>>
    /\ nruns = 0
    /\ registered = <<>>

InitVM ==
    /\ variant \in {"porc", "bps"}
    /\ heap \in VMStores
    /\ dag = IdentityDag(heap)
    /\ wallet_balances = [o \in Owners |-> 0]
    /\ total_supply = 0
    \* the caller passes round_number = 0, 1, 2, ... or 1, 2, 3, ... (bps.py 170)
    /\ round_number \in IF variant = "bps" THEN {-1, 0} ELSE {0}
    /\ InitVMFields

\* trans.py 145-155: every unit is put in the store; the caller credits its
\* owner's wallet and the supply (the units in credited)
RECURSIVE CreditAll(_, _, _)
CreditAll(h, credited, k) ==
    IF k = 0 THEN [wallet |-> [o \in Owners |-> 0], supply |-> 0]
    ELSE LET prev == CreditAll(h, credited, k - 1)
         IN  IF k \in credited
             THEN [wallet |-> [prev.wallet EXCEPT ![h[k].owner] = @ + h[k].value],
                   supply |-> prev.supply + h[k].value]
             ELSE prev

InitLedger ==
    /\ variant = "trans"
    /\ heap \in LedgerStores
    /\ dag = IdentityDag(heap)
    /\ \E credited \in SUBSET DOMAIN heap :
          /\ wallet_balances = CreditAll(heap, credited, Len(heap)).wallet
          /\ total_supply = CreditAll(heap, credited, Len(heap)).supply
    /\ round_number = 0
    /\ InitVMFields

(***************************************************************************)
(* StructureVM.add_contract, called by the set-up code between rounds.     *)
(***************************************************************************)
AddContract ==
    /\ pc = "idle"
    /\ Len(contracts) < ContractLimit(variant)
    /\ \E c \in ContractPool(variant) :
          /\ \A i \in DOMAIN contracts : contracts[i].name /= c.name
          /\ contracts' = add_contract(contracts, c)
          /\ registered' = Append(registered, c.name)
    /\ UNCHANGED <<variant, heap, dag, wallet_balances, total_supply, history,
                   events, reward_pool, executed_contracts, round,
                   first_trigger_rounds, block_times, pc, paths, pi, ci,
                   round_number, first_trigger_round, result, nruns>>

(***************************************************************************)
(* StructureVM.run, one step per statement group: the prologue, one        *)
(* iteration of the inner loop, the epilogue.                              *)
(***************************************************************************)
RunBegin ==
    /\ pc = "idle"
    /\ nruns < MaxRounds
    /\ nruns' = nruns + 1
    /\ paths' = find_paths(heap, dag)
    /\ pi' = 1
    /\ ci' = 1
    /\ pc' = "loop"
    /\ round' = IF variant = "porc" THEN round + 1 ELSE round
    /\ first_trigger_round' = None
    /\ round_number' = IF variant = "bps" THEN round_number + 1 ELSE round_number
    /\ UNCHANGED <<variant, heap, dag, wallet_balances, total_supply,
                   contracts, history, events, reward_pool, executed_contracts,
                   first_trigger_rounds, block_times, result, registered>>

InLoop == pc = "loop" /\ pi <= Len(paths) /\ ci <= Len(contracts)

Advance ==
    IF ci < Len(contracts)
    THEN ci' = ci + 1 /\ pi' = pi
    ELSE ci' = 1 /\ pi' = pi + 1

\* mutant: the gate closes one activation late
TtlExpired_late(c) == c.ttl /= -1 /\ c.activation_count > c.ttl

TtlExpired(c) == c.ttl /= -1 /\ c.activation_count >= c.ttl

\* mutant: the dependency is not consulted
DepWaiting_never(c) == FALSE

DepWaiting(c) == c.depends_on /= "" /\ c.depends_on \notin executed_contracts

\* time.time() - round_start_time, on a logical clock that ticks once per
\* iteration of the inner loop
Elapsed == (pi - 1) * Len(contracts) + (ci - 1)

\* the body of run's inner loop after both gates passed (porc.py 87-98,
\* bps.py 89-104)
ExecuteAndRecord(path, contract) ==
    LET m == execute(variant, Memory(contract), path)
        ids == PathIds(heap, path)
    IN  /\ heap' = m.heap
        /\ dag' = m.dag
        /\ wallet_balances' = m.wallet
        /\ contracts' = [contracts EXCEPT ![ci] = m.contract]
        /\ result' = m.result
        /\ history' = Append(history, <<contract.name, ids, m.result>>)
        /\ IF IsReward(m.result)
           THEN /\ reward_pool' = reward_pool + RewardUnit
                /\ executed_contracts' = executed_contracts \cup {contract.name}
                /\ events' = Append(events, <<"[Layer]", contract.layer,
                                              "Reward triggered by", ids>>)
                /\ IF variant = "bps" /\ first_trigger_round = None
                   THEN /\ first_trigger_round' = Some(round_number)
                        /\ LET block_time == Elapsed
                           IN  block_times' = Append(block_times, block_time)
                   ELSE UNCHANGED <<first_trigger_round, block_times>>
           ELSE IF IsSkipped(m.result)
           THEN /\ events' = Append(events, <<"[Layer]", contract.layer,
                                              "Contract skipped on", ids,
                                              m.result>>)
                /\ UNCHANGED <<reward_pool, executed_contracts,
                               first_trigger_round, block_times>>
           ELSE /\ executed_contracts' = executed_contracts \cup {contract.name}
                /\ events' = Append(events, <<"[Layer]", contract.layer,
                                              "Executed", contract.name, ids>>)
                /\ UNCHANGED <<reward_pool, first_trigger_round, block_times>>

\* mutant: the dependency gate is consulted before the TTL gate
RunStep_depFirst ==
    /\ variant \in {"porc", "bps"}
    /\ InLoop
    /\ Advance
    /\ LET path == paths[pi]
           contract == contracts[ci]
       IN  IF DepWaiting(contract)
           THEN /\ events' = Append(events, <<"[WAIT]", contract.name,
                                              contract.depends_on>>)
                /\ UNCHANGED <<heap, dag, wallet_balances, contracts, history,
                               reward_pool, executed_contracts,
                               first_trigger_round, block_times, result>>
           ELSE IF TtlExpired(contract)
           THEN /\ events' = Append(events, <<"[EXPIRED]", contract.name>>)
                /\ UNCHANGED <<heap, dag, wallet_balances, contracts, history,
                               reward_pool, executed_contracts,
                               first_trigger_round, block_times, result>>
           ELSE ExecuteAndRecord(path, contract)
    /\ UNCHANGED <<variant, total_supply, round, first_trigger_rounds, pc,
                   paths, round_number, nruns,
                   registered>>

RunStep ==
    /\ variant \in {"porc", "bps"}
    /\ InLoop
    /\ Advance
    /\ LET path == paths[pi]
           contract == contracts[ci]
       IN  IF TtlExpired(contract)
           THEN /\ events' = Append(events, <<"[EXPIRED]", contract.name>>)
                /\ UNCHANGED <<heap, dag, wallet_balances, contracts, history,
                               reward_pool, executed_contracts,
                               first_trigger_round, block_times, result>>
           ELSE IF DepWaiting(contract)
           THEN /\ events' = Append(events, <<"[WAIT]", contract.name,
                                              contract.depends_on>>)
                /\ UNCHANGED <<heap, dag, wallet_balances, contracts, history,
                               reward_pool, executed_contracts,
                               first_trigger_round, block_times, result>>
           ELSE ExecuteAndRecord(path, contract)
    /\ UNCHANGED <<variant, total_supply, round, first_trigger_rounds, pc,
                   paths, round_number, nruns,
                   registered>>

RunEnd ==
    /\ pc = "loop"
    /\ ~InLoop
    /\ pc' = "idle"
    /\ first_trigger_rounds' =
          IF variant = "bps"
          THEN Append(first_trigger_rounds,
                      IF first_trigger_round = None \/ first_trigger_round[1] = 0
                      THEN -1 ELSE first_trigger_round[1])
          ELSE first_trigger_rounds
    /\ UNCHANGED <<variant, heap, dag, wallet_balances, total_supply,
                   contracts, history, events, reward_pool, executed_contracts,
                   round, block_times, paths, pi, ci, round_number,
                   first_trigger_round, result, nruns,
                   registered>>

\* mutant: the paths are enumerated anew after every pair
RunStepLedger_reenumerate ==
    /\ variant = "trans"
    /\ InLoop
    /\ Advance
    /\ LET path == paths[pi]
           contract == contracts[ci]
           m == execute(variant, Memory(contract), path)
       IN  /\ heap' = m.heap
           /\ dag' = m.dag
           /\ wallet_balances' = m.wallet
           /\ contracts' = [contracts EXCEPT ![ci] = m.contract]
           /\ result' = m.result
           /\ paths' = find_paths(m.heap, m.dag)
    /\ UNCHANGED <<variant, total_supply, history, events, reward_pool,
                   executed_contracts, round, first_trigger_rounds,
                   block_times, pc, round_number, first_trigger_round,
                   nruns, registered>>

\* trans.py 109-112: the ledger VM's inner loop body
RunStepLedger ==
    /\ variant = "trans"
    /\ InLoop
    /\ Advance
    /\ LET path == paths[pi]
           contract == contracts[ci]
           m == execute(variant, Memory(contract), path)
       IN  /\ heap' = m.heap
           /\ dag' = m.dag
           /\ wallet_balances' = m.wallet
           /\ contracts' = [contracts EXCEPT ![ci] = m.contract]
           /\ result' = m.result
    /\ UNCHANGED <<variant, total_supply, history, events, reward_pool,
                   executed_contracts, round, first_trigger_rounds,
                   block_times, pc, paths, round_number, first_trigger_round,
                   nruns,
                   registered>>

NextVM == AddContract \/ RunBegin \/ RunStep \/ RunEnd

NextLedger == AddContract \/ RunBegin \/ RunStepLedger \/ RunEnd

Init == InitVM \/ InitLedger

(***************************************************************************)
(* find_paths called on its own (the diagnostics interface).               *)
(***************************************************************************)
InitPaths ==
    /\ variant = "paths"
    /\ heap \in DagStores
    /\ dag \in InsertionOrders(Len(heap))
    /\ wallet_balances = [o \in Owners |-> 0]
    /\ total_supply = 0
    /\ round_number = 0
    /\ InitVMFields

FindPaths ==
    /\ variant \in {"paths", "malformed"}
    /\ pc = "idle"
    /\ paths' = find_paths(heap, dag)
    /\ pc' = "found"
    /\ UNCHANGED <<variant, heap, dag, wallet_balances, total_supply,
                   contracts, history, events, reward_pool, executed_contracts,
                   round, first_trigger_rounds, block_times, pi, ci,
                   round_number, first_trigger_round, result, nruns,
                   registered>>

SpecPaths == InitPaths /\ [][FindPaths]_vars

(***************************************************************************)
(* find_paths on stores the code does not rule out: refs may hold any ids  *)
(* of the store, the unit's own id included, and an id no unit has (the    *)
(* first unit references at most itself and that id).  The call is made    *)
(* once the store is built, so the step is fair.                           *)
(***************************************************************************)
\* a unit lists at most this many references
MaxRefs == 3

AbsentId == UnitId(UnitX(0), UnitPhi(0))

RefId(k) == IF k = 0 THEN AbsentId ELSE UnitId(UnitX(k), UnitPhi(k))

MalformedStores ==
    {[k \in 1..n |->
         StructureUTXO(UnitX(k), UnitPhi(k), 20, 95,
                       [i \in DOMAIN SeqOfSet(ref[k]) |->
                           RefId(SeqOfSet(ref[k])[i])])] :
        <<n, ref>> \in
            UNION {{n} \X {q \in [1..n -> {r \in SUBSET (0..n) :
                                                Cardinality(r) <= MaxRefs}] :
                              q[1] \subseteq {0, 1}} :
                      n \in 1..MaxMalformedUnits}}

InitMalformed ==
    /\ variant = "malformed"
    /\ heap \in MalformedStores
    /\ dag = IdentityDag(heap)
    /\ wallet_balances = [o \in Owners |-> 0]
    /\ total_supply = 0
    /\ round_number = 0
    /\ InitVMFields

SpecMalformed == InitMalformed /\ [][FindPaths]_vars /\ WF_vars(FindPaths)

(***************************************************************************)
(* add_contract called on its own, on contracts of every layer and         *)
(* priority.                                                               *)
(***************************************************************************)
InitOrder ==
    /\ variant = "order"
    /\ heap = <<>>
    /\ dag = <<>>
    /\ wallet_balances = [o \in Owners |-> 0]
    /\ total_supply = 0
    /\ round_number = 0
    /\ InitVMFields

SpecOrder == InitOrder /\ [][AddContract]_vars

(***************************************************************************)
(* StructureContract.match called on its own, in average mode (bps.py,     *)
(* trans.py), on a chain of units taken as one path.                       *)
(***************************************************************************)
MatchMetrics ==
    {[delta |-> dl, entropy |-> en] : <<dl, en>> \in {10, 20, 40} \X {85, 95, 96}}

MatchStores ==
    {[k \in 1..n |-> StructureUTXO(UnitX(k), UnitPhi(k), met[k].delta,
                                   met[k].entropy,
                                   RefsTo([i \in 1..n |-> i - 1], k))] :
        <<n, met>> \in
            UNION {{n} \X [1..n -> MatchMetrics] : n \in 1..MaxMatchUnits}}

MatchContracts ==
    {StructureContract("ResonanceReward", 30, 90, "reward", 10, 1, "", -1),
     StructureContract("TokenTransfer", 35, 65, "transfer", 0, 0, "", -1)}

InitMatch ==
    /\ variant \in {"bps", "trans"}
    /\ heap \in MatchStores
    /\ dag = IdentityDag(heap)
    /\ contracts \in {<<c>> : c \in MatchContracts}
    /\ paths = <<IdentityDag(heap)>>
    /\ wallet_balances = [o \in Owners |-> 0]
    /\ total_supply = 0
    /\ history = <<>>
    /\ events = <<>>
    /\ reward_pool = 0
    /\ executed_contracts = {}
    /\ round = 0
    /\ first_trigger_rounds = <<>>
    /\ block_times = <<>>
    /\ pc = "idle"
    /\ pi = 1
    /\ ci = 1
    /\ round_number = 0
    /\ first_trigger_round = None
    /\ result = <<>>
    /\ nruns = 0
    /\ registered = <<>>

Match ==
    /\ pc = "idle"
    /\ result' = <<match(variant, contracts[ci], heap, paths[pi])>>
    /\ pc' = "matched"
    /\ UNCHANGED <<variant, heap, dag, wallet_balances, total_supply,
                   contracts, history, events, reward_pool, executed_contracts,
                   round, first_trigger_rounds, block_times, paths, pi, ci,
                   round_number, first_trigger_round, nruns, registered>>

SpecMatch == InitMatch /\ [][Match]_vars

Next == AddContract \/ RunBegin \/ RunStep \/ RunStepLedger \/ RunEnd

Spec == Init /\ [][Next]_vars

SpecLedger == InitLedger /\ [][NextLedger]_vars

SpecVM == InitVM /\ [][NextVM]_vars

(***************************************************************************)
(* The ledger VM set up as trans.py's main does: every unit put into the   *)
(* store is credited to its owner's wallet.                                *)
(***************************************************************************)
RECURSIVE ValueOf(_, _)
ValueOf(h, S) ==
    IF S = {} THEN 0
    ELSE LET k == CHOOSE a \in S : TRUE IN h[k].value + ValueOf(h, S \ {k})

\* the value of owner's unspent units in the store
UnspentValue(owner) ==
    ValueOf(heap, {k \in Range(dag) : heap[k].owner = owner /\ ~heap[k].spent})

InitFunded ==
    /\ InitLedger
    /\ \A o \in Owners : wallet_balances[o] = UnspentValue(o)

SpecFunded == InitFunded /\ [][NextLedger]_vars


(***************************************************************************)
(* Properties.                                                             *)
(***************************************************************************)
RECURSIVE SumOver(_, _)
SumOver(f, S) ==
    IF S = {} THEN 0
    ELSE LET o == CHOOSE a \in S : TRUE IN f[o] + SumOver(f, S \ {o})

\* a step of run's inner loop: one (path, contract) pair is handled
LoopStep == InLoop /\ <<pi, ci>>' /= <<pi, ci>>

\* the pair the next loop step handles reaches transfer_action
ReachesTransfer ==
    /\ variant = "trans"
    /\ InLoop
    /\ contracts[ci].action = "transfer"
    /\ check(variant, contracts[ci], heap, paths[pi]).passed

SpendingUnit == heap[paths[pi][1]]

\* C1: in the ledger VM the wallet balances of all owners always sum to the
\* total supply recorded at set-up, whatever transfers succeeded or failed.
C1_SupplyConserved ==
    variant = "trans" => SumOver(wallet_balances, Owners) = total_supply

\* a transfer from a to b has succeeded and a later transfer has failed
C1_Witness ==
    /\ variant = "trans"
    /\ StartsWith(result, "Transfer failed:")
    /\ \E i \in DOMAIN heap : heap[i].spent /\ heap[i].owner = "a"
    /\ wallet_balances["b"] > 0

\* C2: a spent flag never goes back to false; a transfer succeeds only on a
\* spending unit (path[0]) that was unspent, so no unit is spent twice; and a
\* transfer_action on a spent path[0] returns the already-spent failure and
\* leaves every balance as it was.
C2_NoDoubleSpend ==
    [][/\ \A i \in DOMAIN heap : heap[i].spent => heap'[i].spent
       /\ (LoopStep /\ variant = "trans" /\ StartsWith(result', "Transferred"))
             => ~SpendingUnit.spent /\ heap'[paths[pi][1]].spent
       /\ (LoopStep /\ ReachesTransfer /\ SpendingUnit.spent)
             => /\ result' = <<"Transfer failed:", "already spent",
                               SpendingUnit.id>>
                /\ wallet_balances' = wallet_balances]_vars

\* a transfer from an already spent unit has just been rejected
C2_Witness ==
    /\ variant = "trans"
    /\ pc = "loop"
    /\ StartsWith(result, "Transfer failed:")
    /\ result[2] = "already spent"
    /\ \E i \in DOMAIN heap : heap[i].spent /\ result[3] = heap[i].id


GatedVM == variant \in {"porc", "bps"}

\* C3: a contract with finite ttl = k >= 0 never has activation_count > k, and
\* every (path, contract) pair handled once activation_count >= k appends an
\* [EXPIRED] event, appends no history record and does not run execute.
C3_TtlBound ==
    [][/\ \A i \in DOMAIN contracts' :
             contracts'[i].ttl >= 0
                => contracts'[i].activation_count <= contracts'[i].ttl
       /\ (/\ LoopStep
           /\ GatedVM
           /\ contracts[ci].ttl >= 0
           /\ contracts[ci].activation_count >= contracts[ci].ttl)
             => /\ events' = Append(events, <<"[EXPIRED]", contracts[ci].name>>)
                /\ history' = history
                /\ contracts' = contracts
                /\ heap' = heap
                /\ reward_pool' = reward_pool
                /\ executed_contracts' = executed_contracts]_vars

\* a contract with ttl >= 1 used up its activations and was then turned away
C3_Witness ==
    /\ GatedVM
    /\ \E i \in DOMAIN contracts :
          /\ contracts[i].ttl >= 1
          /\ contracts[i].activation_count = contracts[i].ttl
          /\ \E k \in DOMAIN events :
                events[k][1] = "[EXPIRED]" /\ events[k][2] = contracts[i].name

\* contract X has a history record with a Reward or generic-success outcome
SucceededIn(hist, X) ==
    \E k \in DOMAIN hist : hist[k][1] = X /\ hist[k][3][1] /= "Skipped"

\* C4: while the contract X that Y depends on has no successful outcome in the
\* history, Y has no history record and activation_count 0, and every pair
\* handled for a non-expired Y appends a [WAIT] event and nothing else.
C4_Dependency ==
    [][/\ \A i \in DOMAIN contracts' :
             (/\ contracts'[i].depends_on /= ""
              /\ ~SucceededIn(history', contracts'[i].depends_on))
                => /\ contracts'[i].activation_count = 0
                   /\ \A k \in DOMAIN history' :
                         history'[k][1] /= contracts'[i].name
       /\ (/\ LoopStep
           /\ GatedVM
           /\ contracts[ci].depends_on /= ""
           /\ ~SucceededIn(history, contracts[ci].depends_on)
           /\ ~(contracts[ci].ttl /= -1
                /\ contracts[ci].activation_count >= contracts[ci].ttl))
             => /\ events' = Append(events, <<"[WAIT]", contracts[ci].name,
                                              contracts[ci].depends_on>>)
                /\ history' = history
                /\ contracts' = contracts
                /\ heap' = heap]_vars

\* a dependent contract waited, its dependency then succeeded, and it ran
C4_Witness ==
    /\ GatedVM
    /\ \E i \in DOMAIN contracts :
          /\ contracts[i].depends_on /= ""
          /\ contracts[i].activation_count >= 1
          /\ SucceededIn(history, contracts[i].depends_on)
          /\ \E k \in DOMAIN events :
                events[k][1] = "[WAIT]" /\ events[k][2] = contracts[i].name

RegIndex(name) == CHOOSE k \in DOMAIN registered : registered[k] = name

\* C5: the contract list holds exactly the registered contracts, higher layer
\* first, then higher priority first, and contracts of equal (layer, priority)
\* in the order of their add_contract calls.
C5_StableOrder ==
    /\ Len(contracts) = Len(registered)
    /\ {contracts[i].name : i \in DOMAIN contracts} = Range(registered)
    /\ \A i, j \in DOMAIN contracts :
          i < j =>
             \/ contracts[i].layer > contracts[j].layer
             \/ /\ contracts[i].layer = contracts[j].layer
                /\ contracts[i].priority > contracts[j].priority
             \/ /\ contracts[i].layer = contracts[j].layer
                /\ contracts[i].priority = contracts[j].priority
                /\ RegIndex(contracts[i].name) < RegIndex(contracts[j].name)

\* three contracts: two tie at the head of the list, the first one registered
\* is sorted to the end
C5_Witness ==
    /\ variant = "order"
    /\ Len(contracts) = 3
    /\ contracts[1].layer = contracts[2].layer
    /\ contracts[1].priority = contracts[2].priority
    /\ contracts[3].name = registered[1]

\* the paths the store admits: distinct units of the store, the first a root,
\* each next unit's refs holding the id of the unit before it
ValidPath(p) ==
    /\ \A i, j \in DOMAIN p : p[i] = p[j] => i = j
    /\ heap[p[1]].refs = <<>>
    /\ \A i \in 1..(Len(p) - 1) : heap[p[i]].id \in Range(heap[p[i + 1]].refs)

AllValidPaths ==
    {p \in UNION {[1..k -> Range(dag)] : k \in 1..Len(dag)} : ValidPath(p)}

\* C6: on a store whose refs form a DAG find_paths returns every valid path,
\* each once, and with a path each of its non-empty prefixes.
C6_AllSimplePaths ==
    pc = "found" =>
       /\ Range(paths) = AllValidPaths
       /\ \A i, j \in DOMAIN paths : paths[i] = paths[j] => i = j
       /\ \A i \in DOMAIN paths : \A k \in 1..Len(paths[i]) :
             SubSeq(paths[i], 1, k) \in Range(paths)

\* a diamond: a unit with two parents, one the parent of the other
C6_Witness ==
    /\ pc = "found"
    /\ \E i \in DOMAIN heap : Len(heap[i].refs) = 2
    /\ \E k \in DOMAIN paths : Len(paths[k]) = 3
    /\ dag /= IdentityDag(heap)

\* C7: on a store of n units that all have empty refs find_paths returns n
\* paths, each of length 1, one per unit.
C7_RootsOnly ==
    (pc = "found" /\ \A i \in DOMAIN heap : heap[i].refs = <<>>) =>
       /\ Len(paths) = Len(dag)
       /\ \A k \in DOMAIN paths : Len(paths[k]) = 1
       /\ {paths[k][1] : k \in DOMAIN paths} = Range(dag)

\* find_paths has run on a store of several units that are all roots
C7_Witness ==
    /\ pc = "found"
    /\ Len(dag) >= 2
    /\ \A i \in DOMAIN heap : heap[i].refs = <<>>
    /\ Len(paths) = Len(dag)


\* C8: a transfer_action on an unspent path[0] whose owner's balance covers its
\* value debits the owner, credits "b", marks the unit spent and puts one new
\* unit into the store: owned by "b", refs = [spent id], the same phi, delta
\* and entropy, provenance = the spent unit's provenance and then its id.  From
\* balances a = 10, b = 0 and value 10 that is a = 0, b = 10 and provenance =
\* [spent id]; a transfer_action on the unit once spent fails as already spent.
C8_TransferEffects ==
    [][/\ (/\ LoopStep
           /\ ReachesTransfer
           /\ ~SpendingUnit.spent
           /\ wallet_balances[SpendingUnit.owner] >= SpendingUnit.value)
             => LET u == SpendingUnit
                    k == Len(heap) + 1
                    debited == [wallet_balances EXCEPT ![u.owner] = @ - u.value]
                IN  /\ wallet_balances' = [debited EXCEPT !["b"] = @ + u.value]
                    /\ heap'[paths[pi][1]].spent
                    /\ Len(heap') = k
                    /\ Range(dag') \ Range(dag) = {k}
                    /\ heap'[k].owner = "b"
                    /\ heap'[k].refs = <<u.id>>
                    /\ heap'[k].phi = u.phi
                    /\ heap'[k].delta = u.delta
                    /\ heap'[k].entropy = u.entropy
                    /\ heap'[k].provenance = Append(u.provenance, u.id)
                    /\ ~heap'[k].spent
                    /\ StartsWith(result', "Transferred")
                    /\ (/\ u.owner = "a"
                        /\ u.value = 10
                        /\ wallet_balances = [a |-> 10, b |-> 0])
                          => /\ wallet_balances' = [a |-> 0, b |-> 10]
                             /\ heap'[k].provenance = <<u.id>>
       /\ (LoopStep /\ ReachesTransfer /\ SpendingUnit.spent)
             => /\ StartsWith(result', "Transfer failed:")
                /\ result'[2] = "already spent"
                /\ Len(heap') = Len(heap)]_vars

\* the scenario's first transfer has just happened: a = 0, b = 10 and the
\* minted unit's provenance is the spent unit's id
C8_Witness ==
    /\ variant = "trans"
    /\ pc = "loop"
    /\ StartsWith(result, "Transferred")
    /\ wallet_balances = [a |-> 0, b |-> 10]
    /\ \E i \in DOMAIN heap :
          /\ heap[i].spent
          /\ heap[Len(heap)].provenance = <<heap[i].id>>
          /\ heap[Len(heap)].owner = "b"
          /\ Len(heap) \in Range(dag)

\* the pair the next loop step handles is turned away by a gate of the gated VM
Gated ==
    GatedVM /\ (TtlExpired(contracts[ci]) \/ DepWaiting(contracts[ci]))

\* C9: execute on a path that passes check adds exactly 1 to activation_count,
\* locks every unit of the path and returns the outcome of one call of the
\* action; on a path that fails check it returns Skipped and changes neither
\* the contract, nor any unit, nor the store, nor the wallets.
C9_ExecuteFrame ==
    [][(LoopStep /\ variant \in {"porc", "bps", "trans"} /\ ~Gated)
          => LET c == contracts[ci]
                 path == paths[pi]
             IN  IF check(variant, c, heap, path).passed
                 THEN /\ contracts'[ci].activation_count = c.activation_count + 1
                      /\ \A i \in DOMAIN contracts :
                            i /= ci => contracts'[i] = contracts[i]
                      /\ \A i \in Range(path) : heap'[i].locked
                      /\ \A i \in DOMAIN heap :
                            i \notin Range(path) => heap'[i].locked = heap[i].locked
                      /\ c.action = "reward" =>
                            /\ result' = <<"Reward", "granted to",
                                           PathIds(heap, path)>>
                            /\ Len(heap') = Len(heap)
                      /\ c.action = "audit" =>
                            /\ result' = <<"Audit", "log created for",
                                           PathIds(heap, path)>>
                            /\ Len(heap') = Len(heap)
                      /\ c.action = "transfer" =>
                            \/ /\ StartsWith(result', "Transferred")
                               /\ Len(heap') = Len(heap) + 1
                            \/ /\ StartsWith(result', "Transfer failed:")
                               /\ Len(heap') = Len(heap)
                 ELSE /\ StartsWith(result', "Skipped")
                      /\ contracts' = contracts
                      /\ heap' = heap
                      /\ dag' = dag
                      /\ wallet_balances' = wallet_balances]_vars

\* one contract has been executed on a path of three units, all now locked,
\* and the pair handled last was skipped
C9_Witness ==
    /\ pc = "loop"
    /\ \E i \in DOMAIN contracts : contracts[i].activation_count >= 1
    /\ \E k \in DOMAIN paths :
          Len(paths[k]) = 3 /\ \A i \in Range(paths[k]) : heap[i].locked
    /\ StartsWith(result, "Skipped")

\* C10: for every pair that run executes (a history record is appended), a
\* Reward outcome adds 10 to reward_pool and the contract's name to
\* executed_contracts, a Skipped outcome changes neither, and any other
\* outcome adds the name and leaves reward_pool unchanged.
C10_OutcomeAccounting ==
    [][history' /= history
          => LET rec == history'[Len(history')]
                 name == rec[1]
                 res == rec[3]
             IN  /\ Len(history') = Len(history) + 1
                 /\ name = contracts[ci].name
                 /\ res[1] = "Reward"
                       => /\ reward_pool' = reward_pool + 10
                          /\ executed_contracts' = executed_contracts \cup {name}
                 /\ res[1] = "Skipped"
                       => /\ reward_pool' = reward_pool
                          /\ executed_contracts' = executed_contracts
                 /\ res[1] \notin {"Reward", "Skipped"}
                       => /\ reward_pool' = reward_pool
                          /\ executed_contracts' = executed_contracts \cup {name}]_vars

\* the history holds a Reward, a Skipped and a generic outcome
C10_Witness ==
    /\ GatedVM
    /\ reward_pool >= 10
    /\ \E k \in DOMAIN history : history[k][3][1] = "Skipped"
    /\ \E k \in DOMAIN history :
          /\ history[k][3][1] = "Audit"
          /\ history[k][1] \in executed_contracts

\* s is an initial segment of t
IsPrefix(s, t) == Len(s) <= Len(t) /\ SubSeq(t, 1, Len(s)) = s

\* the event that run appends for an executed pair, by outcome class
OutcomeEvent(c, ids, res) ==
    IF res[1] = "Reward"
    THEN <<"[Layer]", c.layer, "Reward triggered by", ids>>
    ELSE IF res[1] = "Skipped"
    THEN <<"[Layer]", c.layer, "Contract skipped on", ids, res>>
    ELSE <<"[Layer]", c.layer, "Executed", c.name, ids>>

\* C11: in the gated VMs every (path, contract) pair handled appends exactly
\* one event: [EXPIRED] when the TTL gate closes, else [WAIT] when the
\* dependency gate closes, else the Reward, skipped or executed event of the
\* outcome; it appends exactly one history record (name, path ids, outcome)
\* when both gates passed and none otherwise; no other step touches the logs,
\* so the earlier history and events are always a prefix of the later ones.
C11_OneEventPerPair ==
    [][/\ IsPrefix(events, events')
       /\ IsPrefix(history, history')
       /\ ~LoopStep => events' = events /\ history' = history
       /\ (LoopStep /\ GatedVM)
             => LET c == contracts[ci]
                    ids == PathIds(heap, paths[pi])
                    expired == c.ttl /= -1 /\ c.activation_count >= c.ttl
                    waiting == /\ c.depends_on /= ""
                               /\ c.depends_on \notin executed_contracts
                IN  /\ Len(events') = Len(events) + 1
                    /\ expired =>
                          /\ events'[Len(events')] = <<"[EXPIRED]", c.name>>
                          /\ history' = history
                    /\ (~expired /\ waiting) =>
                          /\ events'[Len(events')] =
                                <<"[WAIT]", c.name, c.depends_on>>
                          /\ history' = history
                    /\ (~expired /\ ~waiting) =>
                          /\ history' = Append(history, <<c.name, ids, result'>>)
                          /\ events'[Len(events')] =
                                OutcomeEvent(c, ids, result')]_vars

\* one round has logged an event of each of the five kinds
C11_Witness ==
    /\ GatedVM
    /\ Len(history) < Len(events)
    /\ \E k \in DOMAIN events : events[k][1] = "[EXPIRED]"
    /\ \E k \in DOMAIN events : events[k][1] = "[WAIT]"
    /\ \E k \in DOMAIN events :
          events[k][1] = "[Layer]" /\ events[k][3] = "Reward triggered by"
    /\ \E k \in DOMAIN events :
          events[k][1] = "[Layer]" /\ events[k][3] = "Contract skipped on"
    /\ \E k \in DOMAIN events :
          events[k][1] = "[Layer]" /\ events[k][3] = "Executed"

\* the sum of a field over the units of the matched path, term by term
RECURSIVE FieldSum(_, _)
FieldSum(field, k) ==
    IF k = 0 THEN 0 ELSE heap[paths[1][k]][field] + FieldSum(field, k - 1)

\* C12: in average mode match is true exactly when the path has at least two
\* units, the mean delta is below delta_thresh and the mean entropy is above
\* entropy_thresh, both strictly (a mean equal to its threshold does not
\* match); with A(0.2, 0.95), B(0.1, 0.96) and thresholds 0.3 / 0.9 the path
\* [A, B] matches and [A] does not.
C12_AverageMatch ==
    pc = "matched" =>
       LET n == Len(paths[1])
           c == contracts[1]
           A == [delta |-> 20, entropy |-> 95]
           B == [delta |-> 10, entropy |-> 96]
           Metric(k) == [delta |-> heap[k].delta, entropy |-> heap[k].entropy]
       IN  /\ result[1] <=> /\ n >= 2
                            /\ FieldSum("delta", n) < c.delta_thresh * n
                            /\ FieldSum("entropy", n) > c.entropy_thresh * n
           /\ (n >= 2 /\ FieldSum("delta", n) = c.delta_thresh * n) => ~result[1]
           /\ (n >= 2 /\ FieldSum("entropy", n) = c.entropy_thresh * n)
                 => ~result[1]
           /\ (c.delta_thresh = 30 /\ c.entropy_thresh = 90 /\ Metric(1) = A)
                 => /\ n = 1 => ~result[1]
                    /\ (n = 2 /\ Metric(2) = B) => result[1]

\* a path of two units whose mean delta equals the threshold, its mean
\* entropy being above the threshold, was found not to match
C12_Witness ==
    /\ pc = "matched"
    /\ Len(paths[1]) = 2
    /\ FieldSum("delta", 2) = contracts[1].delta_thresh * 2
    /\ FieldSum("entropy", 2) > contracts[1].entropy_thresh * 2
    /\ result = <<FALSE>>

\* C13: the ledger VM applies the TTL gate and the dependency gate before
\* execute: a pair whose contract has a finite ttl with activation_count >= ttl,
\* or depends on a contract that has not executed successfully, is not
\* executed (no activation is counted, no unit is locked or spent, no balance
\* moves, no unit is minted).
C13_LedgerGates ==
    [][(/\ LoopStep
        /\ variant = "trans"
        /\ \/ /\ contracts[ci].ttl /= -1
              /\ contracts[ci].activation_count >= contracts[ci].ttl
           \/ /\ contracts[ci].depends_on /= ""
              /\ contracts[ci].depends_on \notin executed_contracts)
          => /\ contracts' = contracts
             /\ heap' = heap
             /\ dag' = dag
             /\ wallet_balances' = wallet_balances]_vars

\* C14: a unit put into the store under an id the store already holds is
\* rejected and the existing unit stays in place; in particular the successor
\* minted by a transfer never replaces a unit of the store.  So every unit of
\* the store is still in the store after any step.
C14_NoOverwrite ==
    [][\A k \in Range(dag) : k \in Range(dag')]_vars

\* C15: on every finite store, malformed ones included (refs with cycles,
\* self-references, ids of no unit), find_paths returns, and no path it
\* returns holds the same unit twice.
C15_TerminatesNoRepeat ==
    /\ <>(pc = "found")
    /\ [](pc = "found" =>
             \A k \in DOMAIN paths :
                \A i, j \in DOMAIN paths[k] :
                   paths[k][i] = paths[k][j] => i = j)

\* find_paths has returned on a store with a cycle of two units below a
\* root, a unit that references itself and a reference to an id of no unit
C15_Witness ==
    /\ variant = "malformed"
    /\ pc = "found"
    /\ \E k \in DOMAIN paths :
          /\ Len(paths[k]) = 3
          /\ heap[paths[k][3]].id \in Range(heap[paths[k][2]].refs)
    /\ \E i \in DOMAIN heap : heap[i].id \in Range(heap[i].refs)
    /\ \E i \in DOMAIN heap : AbsentId \in Range(heap[i].refs)

\* the position of a unit in the store's insertion order
Pos(k) == CHOOSE i \in DOMAIN dag : dag[i] = k

\* depth-first pre-order on paths: a path comes before its extensions, and two
\* paths that part at some place are ordered by the store position of the
\* unit each takes there
PreOrderBefore(p, q) ==
    \/ Len(p) < Len(q) /\ SubSeq(q, 1, Len(p)) = p
    \/ \E i \in DOMAIN p \cap DOMAIN q :
          /\ \A j \in 1..(i - 1) : p[j] = q[j]
          /\ Pos(p[i]) < Pos(q[i])

\* C16: for a given store find_paths returns one sequence, fixed by the store
\* alone: the store's valid paths, each once, in depth-first pre-order (roots
\* in insertion order, a path before its extensions, the extensions of a path
\* in insertion order of the child).
C16_PreOrder ==
    pc = "found" =>
       /\ Range(paths) = AllValidPaths
       /\ \A i, j \in DOMAIN paths :
             i < j => PreOrderBefore(paths[i], paths[j])

\* two roots inserted in the opposite order of their construction, the one
\* inserted first with a child: its path and its extension come first
C16_Witness ==
    /\ variant = "paths"
    /\ pc = "found"
    /\ Len(paths) = 3
    /\ Len(paths[2]) = 2
    /\ Len(paths[3]) = 1
    /\ paths[3][1] < paths[1][1]

\* the contract's finite ttl is used up
Expired(c) == c.ttl /= -1 /\ c.activation_count >= c.ttl

\* C17: the TTL gate comes first and reads the activation_count of the moment:
\* a pair whose contract is expired appends [EXPIRED] and nothing else, also
\* when the contract still waits on its dependency (no [WAIT]); and a
\* contract once expired, in the middle of a round or not, stays expired, so
\* it is turned away on every remaining path of the round and in every later
\* round.
C17_TtlFirst ==
    [][/\ (LoopStep /\ GatedVM /\ Expired(contracts[ci]))
             => /\ events' = Append(events, <<"[EXPIRED]", contracts[ci].name>>)
                /\ history' = history
                /\ contracts' = contracts
       /\ (LoopStep /\ GatedVM /\ ~Expired(contracts[ci]))
             => events'[Len(events')][1] /= "[EXPIRED]"
       /\ \A i \in DOMAIN contracts :
             Expired(contracts[i])
                => \E j \in DOMAIN contracts' :
                      /\ contracts'[j].name = contracts[i].name
                      /\ Expired(contracts'[j])]_vars

\* in the second round: a contract with ttl 0 and an unmet dependency was
\* turned away as expired and never as waiting, and a contract with ttl 1
\* that ran once is turned away as expired
C17_Witness ==
    /\ GatedVM
    /\ nruns = 2
    /\ pc = "loop"
    /\ \E i \in DOMAIN contracts :
          /\ contracts[i].ttl = 0
          /\ contracts[i].depends_on /= ""
          /\ contracts[i].depends_on \notin executed_contracts
          /\ \E k \in DOMAIN events : events[k] = <<"[EXPIRED]", contracts[i].name>>
          /\ \A k \in DOMAIN events :
                ~(events[k][1] = "[WAIT]" /\ events[k][2] = contracts[i].name)
    /\ \E i \in DOMAIN contracts :
          /\ contracts[i].ttl = 1
          /\ contracts[i].activation_count = 1
          /\ events[Len(events)] = <<"[EXPIRED]", contracts[i].name>>

\* the units of the store that a transfer minted
Minted == {k \in Range(dag) : heap[k].provenance /= <<>>}

\* C18: the paths of a round are those enumerated when the round starts: no
\* pair handled changes them, and the successor a transfer mints is put into
\* the store but is in none of the round's paths; the next enumeration is the
\* first to have it in a path.
C18_PathsFixedInRound ==
    [][/\ (LoopStep /\ variant = "trans") => paths' = paths
       /\ (LoopStep /\ variant = "trans" /\ StartsWith(result', "Transferred"))
             => LET k == Len(heap')
                IN  /\ Len(heap') = Len(heap) + 1
                    /\ k \in Range(dag')
                    /\ \A i \in DOMAIN paths' : k \notin Range(paths'[i])
       /\ (variant = "trans" /\ pc = "idle" /\ pc' = "loop")
             => \A k \in Minted : \E i \in DOMAIN paths' : k \in Range(paths'[i])]_vars

\* in the second round a unit minted in the first is part of a path
C18_Witness ==
    /\ variant = "trans"
    /\ pc = "loop"
    /\ nruns = 2
    /\ \E k \in Minted : \E i \in DOMAIN paths : k \in Range(paths[i])

\* the step is the return of run in the metrics VM
RunReturns == variant = "bps" /\ pc = "loop" /\ pc' = "idle"

\* C19: every call run(dag, round_number) of the metrics VM appends exactly
\* one entry to first_trigger_rounds: round_number when the round had a
\* Reward outcome, -1 when it had none, for every round_number, 0 included;
\* and it appends one entry to block_times in a round with a Reward (at the
\* round's first Reward) and none in a round without.
C19_FirstTriggerRounds ==
    [][/\ RunReturns
             => first_trigger_rounds' =
                   Append(first_trigger_rounds,
                          IF first_trigger_round /= None THEN round_number
                          ELSE -1)
       /\ (variant = "bps" /\ ~RunReturns)
             => first_trigger_rounds' = first_trigger_rounds
       /\ (variant = "bps" /\ LoopStep)
             => IF history' /= history /\ IsReward(result')
                THEN /\ first_trigger_round' /= None
                     /\ Len(block_times') =
                           Len(block_times)
                              + (IF first_trigger_round = None THEN 1 ELSE 0)
                ELSE /\ first_trigger_round' = first_trigger_round
                     /\ block_times' = block_times
       /\ (variant = "bps" /\ ~LoopStep) => block_times' = block_times]_vars

\* C20: a transfer_action that fails returns a failure outcome (the round goes
\* on) and changes no balance, no unit's spent flag or provenance and not the
\* set of units in the store.  It fails as already spent whenever path[0] is
\* spent, whatever the owner's balance, and as insufficient balance exactly
\* when path[0] is unspent and its owner's balance is below its value.
C20_FailedTransferFrame ==
    [][(LoopStep /\ ReachesTransfer)
          => LET u == SpendingUnit
                 short == wallet_balances[u.owner] < u.value
             IN  /\ u.spent
                       => result' = <<"Transfer failed:", "already spent", u.id>>
                 /\ (~u.spent /\ short)
                       => result' = <<"Transfer failed:", "insufficient balance",
                                      u.owner>>
                 /\ (~u.spent /\ ~short) => StartsWith(result', "Transferred")
                 /\ (u.spent \/ short)
                       => /\ wallet_balances' = wallet_balances
                          /\ dag' = dag
                          /\ Len(heap') = Len(heap)
                          /\ \A i \in DOMAIN heap :
                                /\ heap'[i].spent = heap[i].spent
                                /\ heap'[i].provenance = heap[i].provenance
                                /\ heap'[i].owner = heap[i].owner
                                /\ heap'[i].value = heap[i].value]_vars

\* a transfer from a spent unit whose owner's balance is below its value has
\* just been refused as already spent
C20_Witness ==
    /\ variant = "trans"
    /\ pc = "loop"
    /\ StartsWith(result, "Transfer failed:")
    /\ result[2] = "already spent"
    /\ \E i \in DOMAIN heap :
          /\ heap[i].id = result[3]
          /\ heap[i].spent
          /\ wallet_balances[heap[i].owner] < heap[i].value

\* the outcome of a transfer_action that failed
IsTransferFailure(res) == StartsWith(res, "Transfer failed:")

\* C21 as stated: a unit's locked flag is never reset, and it becomes true
\* only in a step that executes a contract on a path holding the unit with a
\* successful outcome: not Skipped and, in the ledger VM, not a failed
\* transfer.
C21_LockedOnlyOnSuccess ==
    [][\A i \in DOMAIN heap :
          /\ heap[i].locked => heap'[i].locked
          /\ (~heap[i].locked /\ heap'[i].locked)
                => /\ LoopStep
                   /\ i \in Range(paths[pi])
                   /\ ~IsSkipped(result')
                   /\ ~IsTransferFailure(result')]_vars

\* C21 amended: a unit's locked flag is never reset, a unit is constructed
\* unlocked, and the flag becomes true only in a step that executes a
\* contract on a path holding the unit after check passed, whatever the
\* action then returns: in the ledger VM every unit of a path that passes
\* check is locked also when the transfer fails.
C21_LockedOnCheckPassed ==
    [][/\ \A i \in DOMAIN heap :
             /\ heap[i].locked => heap'[i].locked
             /\ (~heap[i].locked /\ heap'[i].locked)
                   => /\ LoopStep
                      /\ ~Gated
                      /\ i \in Range(paths[pi])
                      /\ check(variant, contracts[ci], heap, paths[pi]).passed
       /\ \A i \in DOMAIN heap' \ DOMAIN heap : ~heap'[i].locked
       /\ (LoopStep /\ ReachesTransfer)
             => \A i \in Range(paths[pi]) : heap'[i].locked]_vars

\* a transfer has just failed for want of balance, no transfer ever
\* succeeded, and the units of the path are locked
C21_Witness ==
    /\ variant = "trans"
    /\ pc = "loop"
    /\ IsTransferFailure(result)
    /\ result[2] = "insufficient balance"
    /\ \A i \in DOMAIN heap : ~heap[i].spent
    /\ \E i \in DOMAIN heap : heap[i].locked /\ heap[i].owner = result[3]

\* C22: when every owner's balance starts as the value of that owner's
\* unspent units in the store, then after any rounds and transfers every
\* owner's balance is still the value of that owner's unspent units in the
\* store, and no balance is negative.
C22_BalanceIsUnspentValue ==
    \A o \in Owners :
       /\ wallet_balances[o] = UnspentValue(o)
       /\ wallet_balances[o] >= 0

=============================================================================
